---- MODULE Spec2Model ----
(***************************************************************************)
(* Model of basketball_ref_webscraper/webscraper.py.                       *)
(*                                                                         *)
(* SpecFetch  : make_request under its three decorators (tenacity retry,   *)
(*              ratelimit sleep_and_retry, ratelimit limits).              *)
(* SpecBox    : get_boxscore on a parsed box-score page.                   *)
(* SpecRoster : get_roster on a parsed roster table.                       *)
(* SpecInjury : get_injury_report on a parsed team page.                   *)
(* SpecSched  : get_all_schedule / get_team_schedule over a season.        *)
(*                                                                         *)
(* Time is counted in whole seconds.                                       *)
(***************************************************************************)
EXTENDS Integers, Sequences, FiniteSets, TLC

VARIABLES
    \* ---- make_request ----
    now,            \* the monotonic clock
    last_reset,     \* RateLimitDecorator.last_reset
    num_calls,      \* RateLimitDecorator.num_calls
    pc,             \* where the single thread is
    url,            \* kind of the request_url of the call in progress
    attempt_number, \* tenacity's retry_state.attempt_number
    exc,            \* the exception of the last failed attempt, or "none"
    attempts,       \* the clock at each requests.get issued so far
    fresh,          \* requests.get issued by the call in progress
    wait_req,       \* the sleep tenacity asked for after the last failure
    result,         \* what make_request returned: "none" or "body"
    \* ---- get_boxscore ----
    box_page,       \* the box-score page as the site serves it
    pcB,            \* where get_boxscore is
    data,           \* the record being built (key -> value)
    visit_stats,    \* the visiting team's non-empty footer cells
    home_stats,     \* the home team's non-empty footer cells
    zi,             \* pairs of the zip consumed so far
    errB,           \* the exception get_boxscore raised, or "none"
    \* ---- get_roster ----
    roster_rows,    \* the tr rows of the roster table body, as served
    pcR,            \* where get_roster is
    roster_data,    \* the list being built
    ri,             \* rows consumed so far
    errR,           \* the exception get_roster raised, or "none"
    \* ---- get_injury_report ----
    inj_page,       \* the team page as served: the all_injuries container
    pcI,            \* where get_injury_report is
    inj_result,     \* what it returned
    errI,           \* the exception it raised, or "none"
    \* ---- get_all_schedule / get_team_schedule ----
    season,         \* the season's pages as served
    team,           \* the team argument of get_team_schedule
    fn,             \* the function running: "all", then "team"
    pcS,            \* where it is
    sched_out,      \* schedule_data / team_schedule, the list being built
    month_urls,     \* the month links still to fetch
    req_log,        \* the URLs passed to make_request by this call, in order
    n_ret,          \* the make_request calls of this call that returned
    all_result,     \* what get_all_schedule returned
    errS            \* the exception raised, or "none"

schedVars == <<season, team, fn, pcS, sched_out, month_urls, req_log, n_ret,
               all_result, errS>>

injuryVars == <<inj_page, pcI, inj_result, errI>>

rosterVars == <<roster_rows, pcR, roster_data, ri, errR>>

boxVars == <<box_page, pcB, data, visit_stats, home_stats, zi, errB>>

fetchVars == <<now, last_reset, num_calls, pc, url, attempt_number, exc,
               attempts, fresh, wait_req, result>>

vars == <<fetchVars, boxVars, rosterVars, injuryVars, schedVars>>

notFetch == <<boxVars, rosterVars, injuryVars, schedVars>>

notBox == <<fetchVars, rosterVars, injuryVars, schedVars>>

notRoster == <<fetchVars, boxVars, injuryVars, schedVars>>

notInjury == <<fetchVars, boxVars, rosterVars, schedVars>>

notSched == <<fetchVars, boxVars, rosterVars, injuryVars>>

\* The extractors at rest (the state of a specification that does not run them).
BoxIdle ==
    /\ box_page = <<>>
    /\ pcB = "off"
    /\ data = <<>>
    /\ visit_stats = <<>>
    /\ home_stats = <<>>
    /\ zi = 0
    /\ errB = "none"

RosterIdle ==
    /\ roster_rows = <<>>
    /\ pcR = "off"
    /\ roster_data = <<>>
    /\ ri = 0
    /\ errR = "none"

InjuryIdle ==
    /\ inj_page = <<>>
    /\ pcI = "off"
    /\ inj_result = <<>>
    /\ errI = "none"

SchedIdle ==
    /\ season = <<>>
    /\ team = <<>>
    /\ fn = "off"
    /\ pcS = "off"
    /\ sched_out = <<>>
    /\ month_urls = <<>>
    /\ req_log = <<>>
    /\ n_ret = 0
    /\ all_result = <<>>
    /\ errS = "none"

----------------------------------------------------------------------------
(* Bounds of the model *)

MaxTime == 9

MaxAttempts == 4

MaxJitter == 1

MaxRows == 2

MaxTh == 2

MaxMonths == 3

----------------------------------------------------------------------------
(* make_request: src lines 12-32 *)

\* @limits(calls=1, period=3.00)
LIMIT_CALLS == 1

LIMIT_PERIOD == 3

\* wait=wait_fixed(3)
RETRY_WAIT == 3

UrlKinds == {"wellformed", "malformed"}

\* The classes an attempt can raise.  requests' hierarchy: ConnectionError,
\* Timeout and InvalidURL all derive from RequestException; KeyboardInterrupt
\* does not.
ExcClasses == {"ConnectionError", "Timeout", "InvalidURL", "KeyboardInterrupt"}

NetworkErrors == {"ConnectionError", "Timeout"}

IsInstance(e, cls) ==
    \/ e = cls
    \/ cls = "RequestException" /\ e \in {"ConnectionError", "Timeout", "InvalidURL"}

\* What requests.get(request_url, timeout=3.0) can do for a URL of kind u.
GetOutcomes(u) ==
    IF u = "malformed"
    THEN {"InvalidURL", "KeyboardInterrupt"}
    ELSE {"ok", "ConnectionError", "Timeout", "KeyboardInterrupt"}

\* retry=retry_if_exception_type((RequestException, ConnectionError))
RetryPredicate(e) ==
    IsInstance(e, "RequestException") \/ IsInstance(e, "ConnectionError")

\* (mutant) stop=stop_after_attempt(2)
StopAfterTwo(n) == n >= 2

\* stop=stop_never
Stop(n) == FALSE

\* wait=wait_fixed(3)
Wait(n) == RETRY_WAIT

\* RateLimitDecorator.__period_remaining
PeriodRemaining == LIMIT_PERIOD - (now - last_reset)

\* The caller (an extractor, or the code between two extractor calls) runs
\* for a second, or a request in flight takes a second longer.
Tick ==
    /\ pc \in {"idle", "get"}
    /\ now < MaxTime
    /\ now' = now + 1
    /\ UNCHANGED <<last_reset, num_calls, pc, url, attempt_number, exc,
                   attempts, fresh, wait_req, result>>
    /\ UNCHANGED notFetch

\* make_request(request_url) is called: tenacity starts attempt 1.
Call(u) ==
    /\ pc = "idle"
    /\ pc' = "limits"
    /\ url' = u
    /\ attempt_number' = 1
    /\ exc' = "none"
    /\ fresh' = 0
    /\ wait_req' = 0
    /\ result' = "none"
    /\ UNCHANGED <<now, last_reset, num_calls, attempts>>
    /\ UNCHANGED notFetch

\* The limits wrapper lets the call through: requests.get is issued.
LimitsPass ==
    /\ pc = "limits"
    /\ Len(attempts) < MaxAttempts
    /\ LET reset == PeriodRemaining <= 0
           n     == (IF reset THEN 0 ELSE num_calls) + 1
       IN /\ n <= LIMIT_CALLS
          /\ num_calls' = n
          /\ last_reset' = IF reset THEN now ELSE last_reset
    /\ attempts' = Append(attempts, now)
    /\ fresh' = fresh + 1
    /\ pc' = "get"
    /\ UNCHANGED <<now, url, attempt_number, exc, wait_req, result>>
    /\ UNCHANGED notFetch

\* The limits wrapper raises RateLimitException(period_remaining);
\* sleep_and_retry sleeps that long (time.sleep may oversleep) and loops.
LimitsSleep(j) ==
    /\ pc = "limits"
    /\ LET reset == PeriodRemaining <= 0
           n     == (IF reset THEN 0 ELSE num_calls) + 1
       IN /\ n > LIMIT_CALLS
          /\ num_calls' = n
          /\ last_reset' = IF reset THEN now ELSE last_reset
          /\ now + PeriodRemaining + j <= MaxTime
          /\ now' = now + PeriodRemaining + j
    /\ UNCHANGED <<pc, url, attempt_number, exc, attempts, fresh, wait_req, result>>
    /\ UNCHANGED notFetch

\* requests.get returns a response: make_request returns response.text.
GetOk ==
    /\ pc = "get"
    /\ "ok" \in GetOutcomes(url)
    /\ pc' = "returned"
    /\ result' = "body"
    /\ UNCHANGED <<now, last_reset, num_calls, url, attempt_number, exc,
                   attempts, fresh, wait_req>>
    /\ UNCHANGED notFetch

\* requests.get raises e: tenacity retries after a wait, or lets it out.
GetFail(e) ==
    /\ pc = "get"
    /\ e \in GetOutcomes(url) \ {"ok"}
    /\ exc' = e
    /\ IF RetryPredicate(e) /\ ~Stop(attempt_number)
       THEN /\ pc' = "wait_retry"
            /\ wait_req' = Wait(attempt_number)
       ELSE /\ pc' = "raised"
            /\ UNCHANGED wait_req
    /\ UNCHANGED <<now, last_reset, num_calls, url, attempt_number,
                   attempts, fresh, result>>
    /\ UNCHANGED notFetch

\* tenacity sleeps wait_req seconds and starts the next attempt.
RetrySleep(j) ==
    /\ pc = "wait_retry"
    /\ now + wait_req + j <= MaxTime
    /\ now' = now + wait_req + j
    /\ attempt_number' = attempt_number + 1
    /\ pc' = "limits"
    /\ UNCHANGED <<last_reset, num_calls, url, exc, attempts, fresh, wait_req, result>>
    /\ UNCHANGED notFetch

\* The caller takes the result (or handles the exception) and goes on.
Finish ==
    /\ pc \in {"returned", "raised"}
    /\ pc' = "idle"
    /\ UNCHANGED <<now, last_reset, num_calls, url, attempt_number, exc,
                   attempts, fresh, wait_req, result>>
    /\ UNCHANGED notFetch

FetchIdle ==
    /\ now = 0
    /\ last_reset = 0
    /\ num_calls = 0
    /\ pc = "idle"
    /\ url = "wellformed"
    /\ attempt_number = 0
    /\ exc = "none"
    /\ attempts = <<>>
    /\ fresh = 0
    /\ wait_req = 0
    /\ result = "none"

InitFetch == FetchIdle /\ BoxIdle /\ RosterIdle /\ InjuryIdle /\ SchedIdle

NextFetch ==
    \/ Tick
    \/ \E u \in UrlKinds : Call(u)
    \/ LimitsPass
    \/ \E j \in 0..MaxJitter : LimitsSleep(j)
    \/ GetOk
    \/ \E e \in ExcClasses : GetFail(e)
    \/ \E j \in 0..MaxJitter : RetrySleep(j)
    \/ Finish

SpecFetch == InitFetch /\ [][NextFetch]_vars

----------------------------------------------------------------------------
(* Claims about make_request *)

\* C1: any two HTTP attempts i < j issued through make_request are at
\* least 3*(j-i) seconds apart (consecutive attempts at least 3 s apart).
C1_Spacing ==
    \A i, j \in 1..Len(attempts) :
        i < j => attempts[j] - attempts[i] >= 3 * (j - i)

\* C2: a network/connection failure never reaches the caller; after each
\* one tenacity asks for the fixed 3 s wait whatever the attempt number, the
\* next attempt of the call is issued no sooner than 3 s after the failed
\* one, and a call that returns returns the page body.
C2_NetworkFailureRetried ==
    /\ pc = "raised" => exc \notin NetworkErrors
    /\ (pc = "wait_retry" /\ exc \in NetworkErrors) => wait_req = 3
    /\ (pc = "get" /\ fresh > 1) =>
           attempts[Len(attempts)] - attempts[Len(attempts) - 1] >= 3
    /\ pc \in {"get", "returned", "raised", "wait_retry"} => fresh = attempt_number
    /\ pc = "returned" => result = "body"

\* C2 witness: a call returned the body on its third attempt, after two
\* network failures.
C2_Witness ==
    /\ pc = "returned"
    /\ attempt_number = 3
    /\ exc \in NetworkErrors
    /\ result = "body"

\* C3: an error that is not a network/connection error (a malformed URL) is
\* never retried: the call raises after its single attempt.
C3_NonNetworkNotRetried ==
    /\ pc = "wait_retry" => exc \in NetworkErrors
    /\ url = "malformed" => fresh <= 1

----------------------------------------------------------------------------
(* Text of a cell: a sequence of characters.  int() as Python computes it. *)

Digits == {"0", "1", "7", "9"}

DigitVal(c) == CASE c = "0" -> 0 [] c = "1" -> 1 [] c = "7" -> 7 [] c = "9" -> 9

RECURSIVE LStrip(_)
LStrip(t) == IF t # <<>> /\ Head(t) = " " THEN LStrip(Tail(t)) ELSE t

RECURSIVE RStrip(_)
RStrip(t) ==
    IF t # <<>> /\ t[Len(t)] = " " THEN RStrip(SubSeq(t, 1, Len(t) - 1)) ELSE t

\* str.strip()
Strip(t) == RStrip(LStrip(t))

\* int(text) succeeds: surrounding whitespace is dropped, the rest is digits.
IsInt(t) == Strip(t) # <<>> /\ \A i \in 1..Len(Strip(t)) : Strip(t)[i] \in Digits

RECURSIVE DigitsVal(_)
DigitsVal(t) ==
    IF t = <<>> THEN 0
    ELSE 10 * DigitsVal(SubSeq(t, 1, Len(t) - 1)) + DigitVal(t[Len(t)])

\* int(text)
ToInt(t) == DigitsVal(Strip(t))

Min(a, b) == IF a <= b THEN a ELSE b

----------------------------------------------------------------------------
(* get_boxscore: src lines 35-58 *)

\* The columns of a box-score footer row, in table order.
FooterCols == <<"fg", "pts", "plus_minus">>

\* The texts a footer cell is served with.
PtsTexts == {<<>>, <<"9">>, <<"1", "0">>, <<" ", "9">>, <<"x">>}

OtherTexts == {<<>>, <<" ">>, <<"7">>}

FooterTexts(c) == IF c = "pts" THEN PtsTexts ELSE OtherTexts

Footers ==
    {f \in [1..Len(FooterCols) -> PtsTexts \cup OtherTexts] :
        \A i \in 1..Len(FooterCols) : f[i] \in FooterTexts(FooterCols[i])}

BoxPages ==
    [series_marker : BOOLEAN,       \* span data-label="All Games in Series"
     h1_game : {"3", "nomatch"},    \* what r'Game (\d)' finds in the h1
     visit_team : {"BOS"},
     home_team : {"LAL"},
     vfoot : Footers,
     hfoot : Footers]

\* A dict key 'prefix_stat'.
Key(prefix, stat) == <<prefix, stat>>

\* tfoot.find_all('td', string=lambda text: text and text.strip())
NonEmptyCells(foot) ==
    SelectSeq([i \in 1..Len(FooterCols) |-> [stat |-> FooterCols[i], text |-> foot[i]]],
              LAMBDA c : Strip(c.text) # <<>>)

\* (mutant) the winner with >= on the home points
GameResultTieHome(d) ==
    IF ToInt(d[Key("home", "pts")]) >= ToInt(d[Key("visit", "pts")])
    THEN d[Key("home", "team")]
    ELSE d[Key("visit", "team")]

\* line 56
GameResult(d) ==
    IF ToInt(d[Key("home", "pts")]) > ToInt(d[Key("visit", "pts")])
    THEN d[Key("home", "team")]
    ELSE d[Key("visit", "team")]

\* lines 36-50: fetch, parse, the base fields and the two footers.
BoxParse ==
    /\ pcB = "start"
    /\ LET is_playoff == IF box_page.series_marker THEN 1 ELSE 0
           base == (Key("match", "date") :> "date")
                   @@ (Key("visit", "team") :> box_page.visit_team)
                   @@ (Key("home", "team") :> box_page.home_team)
                   @@ (Key("is", "playoff") :> is_playoff)
       IN IF is_playoff = 1 /\ box_page.h1_game = "nomatch"
          THEN /\ pcB' = "raised"
               /\ errB' = "AttributeError"
               /\ data' = base
               /\ UNCHANGED <<visit_stats, home_stats>>
          ELSE /\ pcB' = "zip"
               /\ data' = (Key("playoff", "round") :>
                              IF is_playoff = 1 THEN box_page.h1_game ELSE 0) @@ base
               /\ visit_stats' = NonEmptyCells(box_page.vfoot)
               /\ home_stats' = NonEmptyCells(box_page.hfoot)
               /\ UNCHANGED errB
    /\ UNCHANGED <<box_page, zi>>
    /\ UNCHANGED notBox

\* lines 52-54: one pair of the zip.
BoxCopy ==
    /\ pcB = "zip"
    /\ zi < Min(Len(visit_stats), Len(home_stats))
    /\ LET v_cell == visit_stats[zi + 1]
           h_cell == home_stats[zi + 1]
       IN data' = (Key("home", h_cell.stat) :> h_cell.text)
                  @@ (Key("visit", v_cell.stat) :> v_cell.text) @@ data
    /\ zi' = zi + 1
    /\ UNCHANGED <<box_page, pcB, visit_stats, home_stats, errB>>
    /\ UNCHANGED notBox

\* lines 56-58: the zip is exhausted; the winner.
BoxResult ==
    /\ pcB = "zip"
    /\ zi = Min(Len(visit_stats), Len(home_stats))
    /\ IF Key("home", "pts") \notin DOMAIN data
       THEN pcB' = "raised" /\ errB' = "KeyError" /\ UNCHANGED data
       ELSE IF ~IsInt(data[Key("home", "pts")])
       THEN pcB' = "raised" /\ errB' = "ValueError" /\ UNCHANGED data
       ELSE IF Key("visit", "pts") \notin DOMAIN data
       THEN pcB' = "raised" /\ errB' = "KeyError" /\ UNCHANGED data
       ELSE IF ~IsInt(data[Key("visit", "pts")])
       THEN pcB' = "raised" /\ errB' = "ValueError" /\ UNCHANGED data
       ELSE /\ pcB' = "returned"
            /\ data' = (Key("game", "result") :> GameResult(data)) @@ data
            /\ UNCHANGED errB
    /\ UNCHANGED <<box_page, visit_stats, home_stats, zi>>
    /\ UNCHANGED notBox

InitBox ==
    /\ FetchIdle
    /\ RosterIdle
    /\ InjuryIdle
    /\ SchedIdle
    /\ box_page \in BoxPages
    /\ pcB = "start"
    /\ data = <<>>
    /\ visit_stats = <<>>
    /\ home_stats = <<>>
    /\ zi = 0
    /\ errB = "none"

NextBox ==
    \/ BoxParse
    \/ BoxCopy
    \/ BoxResult

SpecBox == InitBox /\ [][NextBox]_vars

----------------------------------------------------------------------------
(* Claims about get_boxscore *)

\* The point totals of the page, as integers.
HomePts == ToInt(box_page.hfoot[2])

VisitPts == ToInt(box_page.vfoot[2])

\* C7 (as amended): in every record get_boxscore returns, game_result is
\* home_team when home_pts > visit_pts and visit_team otherwise, so equal
\* totals resolve to the visiting team.
C7_WinnerTieToVisitor ==
    pcB = "returned" =>
        /\ HomePts > VisitPts => data[Key("game", "result")] = box_page.home_team
        /\ VisitPts > HomePts => data[Key("game", "result")] = box_page.visit_team
        /\ HomePts = VisitPts => data[Key("game", "result")] = box_page.visit_team

\* C7 witness: a returned record of a game with equal totals.
C7_Witness ==
    /\ pcB = "returned"
    /\ HomePts = VisitPts
    /\ data[Key("game", "result")] = box_page.visit_team

\* C7 (as stated): game_result is the team with strictly more points, and
\* equal totals resolve to the home team.
C7_WinnerTieToHome ==
    pcB = "returned" =>
        /\ HomePts > VisitPts => data[Key("game", "result")] = box_page.home_team
        /\ VisitPts > HomePts => data[Key("game", "result")] = box_page.visit_team
        /\ HomePts = VisitPts => data[Key("game", "result")] = box_page.home_team

\* C10: in the record get_boxscore returns, every non-empty footer cell of
\* the visiting team is under visit_<stat> and every non-empty footer cell
\* of the home team under home_<stat>, whatever the numbers of non-empty
\* cells in the two footers.
C10_EveryFooterCellCopied ==
    pcB = "returned" =>
        \A i \in 1..Len(FooterCols) :
            /\ Strip(box_page.vfoot[i]) # <<>> =>
                  /\ Key("visit", FooterCols[i]) \in DOMAIN data
                  /\ data[Key("visit", FooterCols[i])] = box_page.vfoot[i]
            /\ Strip(box_page.hfoot[i]) # <<>> =>
                  /\ Key("home", FooterCols[i]) \in DOMAIN data
                  /\ data[Key("home", FooterCols[i])] = box_page.hfoot[i]

----------------------------------------------------------------------------
(* float() as Python computes it, on texts of digits, '.' and blanks.      *)

DotCount(t) == Cardinality({i \in 1..Len(t) : t[i] = "."})

NoDots(t) == SelectSeq(t, LAMBDA c : c # ".")

RECURSIVE DotPos(_)
DotPos(t) == IF t = <<>> \/ Head(t) = "." THEN 1 ELSE 1 + DotPos(Tail(t))

\* float(text) succeeds.
IsFloat(t) ==
    /\ DotCount(Strip(t)) <= 1
    /\ NoDots(Strip(t)) # <<>>
    /\ \A i \in 1..Len(Strip(t)) : Strip(t)[i] \in Digits \cup {"."}

\* A decimal num / 10^scale with no trailing zero in its fraction.
RECURSIVE Normal(_, _)
Normal(num, scale) ==
    IF scale > 0 /\ num % 10 = 0 THEN Normal(num \div 10, scale - 1)
    ELSE <<num, scale>>

\* float(text): the value, as <<num, scale>>.
ToFloat(t) ==
    Normal(DigitsVal(NoDots(Strip(t))),
           IF DotCount(Strip(t)) = 0 THEN 0 ELSE Len(Strip(t)) - DotPos(Strip(t)))

\* Python values, with their type.
IntV(n) == [type |-> "int", val |-> n]

FloatV(q) == [type |-> "float", val |-> q]

StrV(t) == [type |-> "str", val |-> t]

----------------------------------------------------------------------------
(* get_roster: src lines 61-90 *)

\* A td cell: its data-stat, its text, its attributes, the href of its
\* anchor (<<>>: no anchor) and the text of its span (<<>>: no span).
Cell(stat, text, attrs, a, span) ==
    [stat |-> stat, text |-> text, attrs |-> attrs, a |-> a, span |-> span]

NoAttrs == <<>>

Csk(t) == [csk |-> t]

WeightTexts == {<<"1", "9", "0">>, <<" ", "9", "7">>, <<>>}

HeightCsks == {Csk(<<"7", "9", ".", "0">>), Csk(<<"7", "9">>), NoAttrs}

ExperienceCsks == {Csk(<<"0">>), Csk(<<"1", "0">>)}

\* An href '/players/t/<id>.html': its directories and its file name.
PlayerHref == [dirs |-> <<"", "players", "t">>, file |-> <<"tatumja01", ".html">>]

\* The rows a roster table body is served with: a full row of td cells in
\* table order, or a row with no td cell.
RosterRowSet ==
    {<<>>} \cup
    { << Cell("player", <<"T">>, Csk(<<"T">>), <<PlayerHref>>, <<>>),
         Cell("pos", <<"G">>, NoAttrs, <<>>, <<>>),
         Cell("height", <<"6", "-", "7">>, h, <<>>, <<>>),
         Cell("weight", w, NoAttrs, <<>>, <<>>),
         Cell("flag", <<>>, NoAttrs, <<>>, <<<<"u", "s">>>>),
         Cell("years_experience", <<"R">>, e, <<>>, <<>>) >> :
        h \in HeightCsks, w \in WeightTexts, e \in ExperienceCsks }

RECURSIVE SeqsUpTo(_, _)
SeqsUpTo(S, n) ==
    IF n = 0 THEN {<<>>}
    ELSE SeqsUpTo(S, n - 1) \cup
         {Append(q, x) : q \in {r \in SeqsUpTo(S, n - 1) : Len(r) = n - 1}, x \in S}

\* The exception the match statement raises on a cell, or "none".
CellError(c) ==
    CASE c.stat = "weight" ->
            IF IsInt(c.text) THEN "none" ELSE "ValueError"
      [] c.stat = "player" ->
            IF "csk" \notin DOMAIN c.attrs THEN "KeyError"
            ELSE IF c.a = <<>> THEN "AttributeError" ELSE "none"
      [] c.stat \in {"years_experience", "height"} ->
            IF "csk" \notin DOMAIN c.attrs THEN "KeyError"
            ELSE IF IsFloat(c.attrs.csk) THEN "none" ELSE "ValueError"
      [] c.stat = "flag" ->
            IF c.span = <<>> THEN "AttributeError" ELSE "none"
      [] OTHER -> "none"

\* (mutant) weight falls to the default case and stays text
CellFieldsWeightText(c) ==
    CASE c.stat = "player" ->
            ("player" :> StrV(c.attrs.csk))
            @@ ("url" :> StrV(c.a[1]))
            @@ ("playerid" :> StrV(c.a[1].file[1]))
      [] c.stat \in {"years_experience", "height"} ->
            (c.stat :> FloatV(ToFloat(c.attrs.csk)))
      [] c.stat = "flag" -> (c.stat :> StrV(c.span[1]))
      [] OTHER -> (c.stat :> StrV(c.text))

\* lines 71-87: the fields one cell sets.
CellFields(c) ==
    CASE c.stat = "weight" -> ("weight" :> IntV(ToInt(c.text)))
      [] c.stat = "player" ->
            ("player" :> StrV(c.attrs.csk))
            @@ ("url" :> StrV(c.a[1]))
            @@ ("playerid" :> StrV(c.a[1].file[1]))
      [] c.stat \in {"years_experience", "height"} ->
            (c.stat :> FloatV(ToFloat(c.attrs.csk)))
      [] c.stat = "flag" -> (c.stat :> StrV(c.span[1]))
      [] OTHER -> (c.stat :> StrV(c.text))

\* lines 68-87: the first exception over the cells of a row, or "none".
RECURSIVE RowError(_)
RowError(cells) ==
    IF cells = <<>> THEN "none"
    ELSE IF CellError(Head(cells)) # "none" THEN CellError(Head(cells))
    ELSE RowError(Tail(cells))

\* lines 68-87: the record of a row (a later cell overwrites an earlier key).
RECURSIVE RowData(_)
RowData(cells) ==
    IF cells = <<>> THEN <<>>
    ELSE CellFields(cells[Len(cells)]) @@ RowData(SubSeq(cells, 1, Len(cells) - 1))

\* lines 62-64: fetch, parse, the rows of the table body.
RosterParse ==
    /\ pcR = "start"
    /\ pcR' = "rows"
    /\ roster_data' = <<>>
    /\ ri' = 0
    /\ UNCHANGED <<roster_rows, errR>>
    /\ UNCHANGED notRoster

\* lines 67-88: one row.
RosterRow ==
    /\ pcR = "rows"
    /\ ri < Len(roster_rows)
    /\ LET cells == roster_rows[ri + 1]
       IN IF RowError(cells) # "none"
          THEN /\ pcR' = "raised"
               /\ errR' = RowError(cells)
               /\ UNCHANGED <<roster_data, ri>>
          ELSE /\ roster_data' = Append(roster_data, RowData(cells))
               /\ ri' = ri + 1
               /\ UNCHANGED <<pcR, errR>>
    /\ UNCHANGED roster_rows
    /\ UNCHANGED notRoster

\* line 90
RosterReturn ==
    /\ pcR = "rows"
    /\ ri = Len(roster_rows)
    /\ pcR' = "returned"
    /\ UNCHANGED <<roster_rows, roster_data, ri, errR>>
    /\ UNCHANGED notRoster

InitRoster ==
    /\ FetchIdle
    /\ BoxIdle
    /\ InjuryIdle
    /\ SchedIdle
    /\ roster_rows \in SeqsUpTo(RosterRowSet, MaxRows)
    /\ pcR = "start"
    /\ roster_data = <<>>
    /\ ri = 0
    /\ errR = "none"

NextRoster ==
    \/ RosterParse
    \/ RosterRow
    \/ RosterReturn

SpecRoster == InitRoster /\ [][NextRoster]_vars

----------------------------------------------------------------------------
(* Claims about get_roster *)

\* The cell of a row with a given data-stat.
CellOf(cells, stat) == cells[CHOOSE k \in 1..Len(cells) : cells[k].stat = stat]

\* C8: get_roster returns one record per row, the i-th from the i-th row
\* (its fields are those of the row's cells), with weight an integer and
\* height and years_experience decimals; while it runs, it has one record
\* per row consumed.
C8_OneRecordPerRow ==
    /\ pcR \in {"rows", "returned"} => Len(roster_data) = ri
    /\ pcR = "returned" =>
         /\ Len(roster_data) = Len(roster_rows)
         /\ \A i \in 1..Len(roster_rows) :
              LET row == roster_rows[i]
                  rec == roster_data[i]
              IN /\ \A k \in 1..Len(row) : row[k].stat \in DOMAIN rec
                 /\ row = <<>> => rec = <<>>
                 /\ row # <<>> =>
                      /\ rec["weight"].type = "int"
                      /\ rec["weight"].val = ToInt(CellOf(row, "weight").text)
                      /\ rec["height"].type = "float"
                      /\ rec["height"].val = ToFloat(CellOf(row, "height").attrs.csk)
                      /\ rec["years_experience"].type = "float"
                      /\ rec["years_experience"].val =
                            ToFloat(CellOf(row, "years_experience").attrs.csk)
                      /\ rec["player"].val = CellOf(row, "player").attrs.csk
                      /\ rec["pos"] = StrV(CellOf(row, "pos").text)

\* C8 witness: two different full rows gave two records.
C8_Witness ==
    /\ pcR = "returned"
    /\ Len(roster_rows) = 2
    /\ roster_rows[1] # <<>>
    /\ roster_rows[2] # <<>>
    /\ roster_rows[1] # roster_rows[2]
    /\ Len(roster_data) = 2

----------------------------------------------------------------------------
(* get_injury_report: src lines 93-104 *)

\* A table: its th cells in document order, each with its attributes.
InjuryTables == SeqsUpTo({Csk(<<"A">>), Csk(<<"B">>), NoAttrs}, MaxTh)

\* Zero or one of the elements of S, as a sequence.
Opt(S) == {<<>>} \cup {<<x>> : x \in S}

\* The comment node of the container: its text is empty, or is HTML that
\* holds a table or none.
Comments == [empty : {TRUE}, table : {<<>>}] \cup [empty : {FALSE}, table : Opt(InjuryTables)]

\* The page: whether div#all_injuries is there, the table directly inside
\* it (if any) and the first comment node inside it (if any).
InjuryPages ==
    [container : {FALSE}, direct : {<<>>}, comment : {<<>>}]
    \cup [container : {TRUE}, direct : Opt(InjuryTables), comment : Opt(Comments)]

NoneV == [type |-> "None"]

ListV(l) == [type |-> "list", val |-> l]

\* [th['csk'] for th in table.find_all('th', attrs={'csk': True})]
CskValues(table) ==
    LET ths == SelectSeq(table, LAMBDA th : "csk" \in DOMAIN th)
    IN [i \in 1..Len(ths) |-> ths[i].csk]

\* lines 94-98: fetch, parse, the container.
InjuryContainer ==
    /\ pcI = "start"
    /\ IF ~inj_page.container
       THEN pcI' = "returned" /\ inj_result' = NoneV
       ELSE pcI' = "comment" /\ UNCHANGED inj_result
    /\ UNCHANGED <<inj_page, errI>>
    /\ UNCHANGED notInjury

\* lines 99-104: the comment node, the table in it, the csk values.
InjuryComment ==
    /\ pcI = "comment"
    /\ IF inj_page.comment = <<>> \/ inj_page.comment[1].empty
       THEN pcI' = "returned" /\ inj_result' = NoneV /\ UNCHANGED errI
       ELSE IF inj_page.comment[1].table = <<>>
       THEN pcI' = "raised" /\ errI' = "AttributeError" /\ UNCHANGED inj_result
       ELSE /\ pcI' = "returned"
            /\ inj_result' = ListV(CskValues(inj_page.comment[1].table[1]))
            /\ UNCHANGED errI
    /\ UNCHANGED inj_page
    /\ UNCHANGED notInjury

InitInjury ==
    /\ FetchIdle
    /\ BoxIdle
    /\ RosterIdle
    /\ SchedIdle
    /\ inj_page \in InjuryPages
    /\ pcI = "start"
    /\ inj_result = <<>>
    /\ errI = "none"

NextInjury ==
    \/ InjuryContainer
    \/ InjuryComment

SpecInjury == InitInjury /\ [][NextInjury]_vars

----------------------------------------------------------------------------
(* Claims about get_injury_report *)

\* The comment of the page holds a table.
CommentTable ==
    /\ inj_page.comment # <<>>
    /\ inj_page.comment[1].table # <<>>

\* C6: on a page with no injuries table (no container, no comment node in
\* the container, or a comment that holds no table) get_injury_report
\* raises nothing and returns None.
C6_NoTableGivesNone ==
    (inj_page.direct = <<>> /\ ~CommentTable) =>
        /\ pcI # "raised"
        /\ pcI = "returned" => inj_result = NoneV

\* C9: the table is the one directly inside the container if there is one,
\* else the one in the container's comment; with a table the result is the
\* csk values of its th cells that carry one, in document order; with none
\* it is None.
C9_DirectThenCommentThenNone ==
    pcI = "returned" =>
        inj_result =
           IF ~inj_page.container THEN NoneV
           ELSE IF inj_page.direct # <<>> THEN ListV(CskValues(inj_page.direct[1]))
           ELSE IF CommentTable THEN ListV(CskValues(inj_page.comment[1].table[1]))
           ELSE NoneV

----------------------------------------------------------------------------
(* get_all_schedule, get_team_schedule and their helpers: src lines 107-155 *)
(* A string is the sequence of its characters (or of longer pieces where   *)
(* nothing looks inside them).                                             *)

BOS == <<"B", "O", "S">>

LAL == <<"L", "A", "L">>

NYK == <<"N", "Y", "K">>

DEN == <<"D", "E", "N">>

Oct24 == <<"2", "0", "2", "3", "1", "0", "2", "4">>

Nov02 == <<"2", "0", "2", "3", "1", "1", "0", "2">>

BASE_URL == <<"https://www.basketball-reference.com">>

\* Python's t[a:b]
PySlice(t, a, b) == SubSeq(t, a + 1, Min(b, Len(t)))

\* Python's t[1:]
PyFromOne(t) == SubSeq(t, 2, Len(t))

\* (mutant) every month link is fetched, the first one too
PyFromZero(t) == t

\* What the [1:] of line 113 and line 126 keeps of the month links.
LinksToFetch(links) == PyFromOne(links)

\* A tr of a schedule table: its text, the csk of its visitor_team_name
\* cell, the csk of its date_game cell, the href of its box-score anchor
\* (<<>>: no anchor).
GameRow(v, d, h, linked) ==
    [text |-> <<"game">>,
     visitor |-> v \o <<".">> \o d \o <<"0">> \o h,
     date |-> d \o <<"0">> \o h,
     box |-> IF linked THEN <<<<"/boxscores/">> \o d \o <<"0">> \o h \o <<".html">>>>
             ELSE <<>>]

PlayoffsRow == [text |-> <<" ", "Playoffs", " ">>, visitor |-> <<>>, date |-> <<>>, box |-> <<>>]

G1 == GameRow(BOS, Oct24, LAL, TRUE)

G2 == GameRow(LAL, Nov02, NYK, FALSE)

G3 == GameRow(NYK, Nov02, BOS, TRUE)

\* The pages served: without a tbody, or with these rows.
PageSet ==
    {[tbody |-> FALSE, rows |-> <<>>],
     [tbody |-> TRUE, rows |-> <<>>],
     [tbody |-> TRUE, rows |-> <<G1, PlayoffsRow, G2>>],
     [tbody |-> TRUE, rows |-> <<G3, G1>>],
     [tbody |-> TRUE, rows |-> <<PlayoffsRow>>]}

\* A season as served: the main page, whether it has the div.filter, and
\* the page behind each of its month links (the page behind the first
\* link is never asked for).
Seasons ==
    UNION {[filter : BOOLEAN, main : PageSet, months : [1..m -> PageSet]] : m \in 0..MaxMonths}

TeamArgs == {BOS, NYK, DEN}

MainUrl == BASE_URL \o <<"/leagues/NBA_", "year", "_games.html">>

\* The URL of the k-th month link: BASE_URL + a.get('href').
MonthUrl(k) == BASE_URL \o <<"/leagues/NBA_", "year", "_games-", k, ".html">>

\* lines 134-136, on a page that has the div.filter
MonthLinks(s) == [k \in 1..Len(s.months) |-> MonthUrl(k)]

\* The page make_request returns for a month URL.
Served(s, u) == s.months[u[Len(u) - 1]]

\* lines 145-155
get_match_data(match) ==
    LET team_names == match.visitor
        visit_team == PySlice(team_names, 0, 3)
        home_team  == PySlice(team_names, 13, 16)
        match_date == PySlice(match.date, 0, 8)
    IN [match_link |-> IF match.box # <<>>
                       THEN BASE_URL \o match.box[1]
                       ELSE BASE_URL \o <<"/boxscores/">> \o match_date \o home_team
                            \o <<"0.html">>,
        match_date |-> match_date,
        visit_team |-> visit_team,
        home_team |-> home_team]

\* lines 139-142, on a page with a tbody
ParseMatches(page) ==
    LET kept == SelectSeq(page.rows, LAMBDA r : Strip(r.text) # <<"Playoffs">>)
    IN [i \in 1..Len(kept) |-> get_match_data(kept[i])]

\* (mutant) only the home team is compared
TeamMatchesHomeOnly(t, matches) ==
    SelectSeq(matches, LAMBDA m : t = m.home_team)

\* lines 124 and 128: [m for m in ... if team in (m['home_team'], m['visit_team'])]
TeamMatches(t, matches) ==
    SelectSeq(matches, LAMBDA m : t \in {m.home_team, m.visit_team})

\* What the running function keeps of a page's matches.
Kept(matches) == IF fn = "all" THEN matches ELSE TeamMatches(team, matches)

\* lines 108-109 / 121-122: make_request(season_url) is called.
SchedCallMain ==
    /\ pcS = "start"
    /\ req_log' = <<MainUrl>>
    /\ pcS' = "wait_main"
    /\ UNCHANGED <<season, team, fn, sched_out, month_urls, n_ret, all_result, errS>>
    /\ UNCHANGED notSched

\* lines 111-113 / 124-126: the main page is back; its matches, its links.
SchedMain ==
    /\ pcS = "wait_main"
    /\ n_ret' = n_ret + 1
    /\ IF ~season.main.tbody
       THEN /\ pcS' = "raised"
            /\ errS' = "AttributeError"
            /\ UNCHANGED <<sched_out, month_urls>>
       ELSE /\ sched_out' = Kept(ParseMatches(season.main))
            /\ IF ~season.filter
               THEN /\ pcS' = "raised"
                    /\ errS' = "AttributeError"
                    /\ UNCHANGED month_urls
               ELSE /\ pcS' = "loop"
                    /\ month_urls' = LinksToFetch(MonthLinks(season))
                    /\ UNCHANGED errS
    /\ UNCHANGED <<season, team, fn, req_log, all_result>>
    /\ UNCHANGED notSched

\* lines 114 / 127: make_request(month_url) is called.
SchedCallMonth ==
    /\ pcS = "loop"
    /\ month_urls # <<>>
    /\ req_log' = Append(req_log, Head(month_urls))
    /\ pcS' = "wait_month"
    /\ UNCHANGED <<season, team, fn, sched_out, month_urls, n_ret, all_result, errS>>
    /\ UNCHANGED notSched

\* lines 115 / 128-129: the month page is back; its matches are added.
SchedMonth ==
    /\ pcS = "wait_month"
    /\ n_ret' = n_ret + 1
    /\ LET page == Served(season, Head(month_urls))
       IN IF ~page.tbody
          THEN /\ pcS' = "raised"
               /\ errS' = "AttributeError"
               /\ UNCHANGED <<sched_out, month_urls>>
          ELSE /\ sched_out' = sched_out \o Kept(ParseMatches(page))
               /\ month_urls' = Tail(month_urls)
               /\ pcS' = "loop"
               /\ UNCHANGED errS
    /\ UNCHANGED <<season, team, fn, req_log, all_result>>
    /\ UNCHANGED notSched

\* lines 117 / 131
SchedReturn ==
    /\ pcS = "loop"
    /\ month_urls = <<>>
    /\ pcS' = "returned"
    /\ UNCHANGED <<season, team, fn, sched_out, month_urls, req_log, n_ret,
                   all_result, errS>>
    /\ UNCHANGED notSched

\* The caller keeps what get_all_schedule(year) returned and calls
\* get_team_schedule(team, year); the site serves the same pages.
SchedCallTeam ==
    /\ fn = "all"
    /\ pcS = "returned"
    /\ all_result' = sched_out
    /\ fn' = "team"
    /\ pcS' = "start"
    /\ sched_out' = <<>>
    /\ req_log' = <<>>
    /\ n_ret' = 0
    /\ UNCHANGED <<season, team, month_urls, errS>>
    /\ UNCHANGED notSched

InitSched ==
    /\ FetchIdle
    /\ BoxIdle
    /\ RosterIdle
    /\ InjuryIdle
    /\ season \in Seasons
    /\ team \in TeamArgs
    /\ fn = "all"
    /\ pcS = "start"
    /\ sched_out = <<>>
    /\ month_urls = <<>>
    /\ req_log = <<>>
    /\ n_ret = 0
    /\ all_result = <<>>
    /\ errS = "none"

NextSched ==
    \/ SchedCallMain
    \/ SchedMain
    \/ SchedCallMonth
    \/ SchedMonth
    \/ SchedReturn
    \/ SchedCallTeam

SpecSched == InitSched /\ [][NextSched]_vars

----------------------------------------------------------------------------
(* Claims about the schedule extractors *)

\* The length of the main page's month-link list.
M == Len(season.months)

\* C4 (as amended): a call of get_all_schedule or get_team_schedule that
\* returns has passed to make_request the season URL and then each month
\* link after the first, in link order: 1 + (M - 1) calls when M >= 1 and
\* 1 call when M = 0; and at any time at most one call is outstanding, a
\* call being issued only when all earlier ones have returned.
C4_CallsInLinkOrder ==
    /\ pcS = "returned" =>
         /\ Len(req_log) = IF M = 0 THEN 1 ELSE 1 + (M - 1)
         /\ req_log[1] = MainUrl
         /\ \A k \in 2..M : req_log[k] = MonthUrl(k)
    /\ Len(req_log) - n_ret = IF pcS \in {"wait_main", "wait_month"} THEN 1 ELSE 0

\* C4 witness: get_team_schedule returned after three calls on a season of
\* three month links.
C4_Witness ==
    /\ fn = "team"
    /\ pcS = "returned"
    /\ M = 3
    /\ Len(req_log) = 3

\* C4 (as stated): for a month-link list of any length M the call issues
\* exactly 1 + (M - 1) calls to make_request.
C4_ExactlyOnePlusMMinusOne ==
    pcS = "returned" => Len(req_log) = 1 + (M - 1)

\* C5: what get_team_schedule(team, year) returns is the sub-sequence of
\* what get_all_schedule(year) returned, on the same pages, made of the
\* entries whose home_team or visit_team is the team.
C5_TeamIsFilterOfAll ==
    (fn = "team" /\ pcS = "returned") =>
        /\ sched_out =
              SelectSeq(all_result,
                        LAMBDA m : m.home_team = team \/ m.visit_team = team)
        /\ \A i \in 1..Len(sched_out) :
              sched_out[i].home_team = team \/ sched_out[i].visit_team = team

\* C5 witness: over several pages, the team schedule kept some entries of
\* the season schedule and dropped others.
C5_Witness ==
    /\ fn = "team"
    /\ pcS = "returned"
    /\ M >= 2
    /\ Len(sched_out) >= 2
    /\ Len(sched_out) < Len(all_result)

====
